---- MODULE Spec2Model ----
(***************************************************************************)
(* Order-execution core of the trading system: ExecutionEngine,            *)
(* OrderManager and PerformanceTracker of                                  *)
(* backend/src/execution/execution_engine.py, run by a set of cooperative  *)
(* (asyncio) callers against an external broker.                           *)
(*                                                                         *)
(* A coroutine runs atomically from one await to the next, so every action *)
(* below is the code between two awaits.  The awaits are: the broker's     *)
(* get_market_data, submit_order and cancel_order, the order manager's     *)
(* get_order_status, and asyncio.sleep.                                    *)
(*                                                                         *)
(* An Order is a mutable object shared by reference between the broker,    *)
(* both registries and the monitoring loop: the registry `orders` maps an  *)
(* order id to the one record of that object, and `active_orders` holds    *)
(* the keys of the second dict, whose values are the same objects.         *)
(*                                                                         *)
(* The risk side, backend/src/risk/risk_manager.py, is synchronous: every  *)
(* call of RiskManager and PositionManager is one action.  Prices and      *)
(* money are integers in tenths of a currency unit, factors in tenths,     *)
(* fractions of capital in hundredths, signal strength in hundredths.      *)
(***************************************************************************)
EXTENDS Integers, Sequences, FiniteSets, TLC

\* Bounds of the model.
MaxOrders == 2     \* order ids that _generate_order_id hands out
MaxQty == 2        \* largest quantity / position size tried
MaxCalls == 2      \* calls of execute_signal, submit_order and cancel_order made

Callers == {"t1", "t2"}            \* concurrently running coroutines
Symbols == {"", "AAPL"}            \* "" is the empty (falsy) symbol
Quantities == {-1, 0, MaxQty}      \* a negative, a zero and a positive size
Signals == {[symbol |-> "AAPL", side |-> "BUY"], [symbol |-> "", side |-> "BUY"],
            [symbol |-> "AAPL", side |-> ""]}

\* class OrderType
OrderType == {"MARKET", "LIMIT", "STOP", "STOP_LIMIT", "TRAILING_STOP"}
\* order kinds a caller may put into an Order; "BOGUS" is no member of OrderType
Kinds == {"MARKET", "BOGUS"}

\* class OrderStatus
OrderStatus == {"PENDING", "SUBMITTED", "PARTIAL", "FILLED", "CANCELLED", "REJECTED"}

\* the statuses on which _monitor_execution leaves its loop
Terminal == {"FILLED", "CANCELLED", "REJECTED"}

VARIABLES
    orders,          \* OrderManager.orders: order_id -> Order
    active_orders,   \* OrderManager.active_orders: its keys
    next_id,         \* state of _generate_order_id
    calls,           \* number of calls made so far
    executions,      \* PerformanceTracker.executions: order_id -> metrics
    pc,              \* per caller: the await it is suspended at, or "idle"
    op,              \* per caller: the public operation it is running
    order,           \* per caller: the local Order it created or works on
    err,             \* per caller: the exception caught by _monitor_execution
    snap,            \* per caller: status of the order when cancel_order was entered
    hist,            \* per order: the statuses it has gone through since registration
    ev,              \* what the last step did (the last call's outcome)
    capital,            \* RiskManager.capital
    current_positions,  \* RiskManager.current_positions: symbol -> value of the position
    positions,          \* PositionManager.positions: symbol -> the position object
    position_history,   \* PositionManager.position_history: list of position objects
    heap,               \* the position objects (dicts) created so far, by identity
    rev,                \* the last call on the risk side: inputs and outcome
    plans               \* per input of the optimizer: the plan it first returned

\* the execution side, the risk side
evars == <<orders, active_orders, next_id, calls, executions, pc, op, order, err, snap, hist, ev>>
rvars == <<capital, current_positions, positions, position_history, heap, rev, plans>>
vars == <<evars, rvars>>

\* dataclass Order (the fields the execution core reads or writes)
Order(symbol, order_type, quantity, order_id) ==
    [symbol |-> symbol, order_type |-> order_type, quantity |-> quantity,
     order_id |-> order_id, status |-> "PENDING", filled_quantity |-> 0]

NoOrder == Order("", "", 0, 0)

\* The record of a step: which action ran, for which order, whether the call it
\* belongs to finished (result # "-") and how.  The order a call returns is
\* orders[ev.oid], the shared object, as the step leaves it.
NoEv ==
    [type |-> "Init",
     op |-> "-",          \* the public operation the step belongs to
     oid |-> 0,           \* the order the step is about
     result |-> "-",      \* "None", "Order", "True", "False", "Raise"; "-" while running
     exc |-> "-",         \* the exception raised to the caller
     broker |-> FALSE,    \* the step invoked the broker
     atCall |-> "-",      \* status of the order when cancel_order was entered
     original |-> "-",    \* the fault caught by the monitoring loop
     comp |-> "-",        \* outcome of the compensating cancel
     malformed |-> FALSE, \* the signal or order given is malformed
     hook |-> FALSE,      \* _handle_partial_fill was invoked
     tracked |-> FALSE]   \* track_execution was invoked

\* OrderManager and PerformanceTracker after construction, every caller idle
OrderManagerInit ==
    /\ orders = << >>
    /\ active_orders = {}
    /\ next_id = 1
    /\ calls = 0
    /\ executions = << >>
    /\ pc = [t \in Callers |-> "idle"]
    /\ op = [t \in Callers |-> "-"]
    /\ order = [t \in Callers |-> NoOrder]
    /\ err = [t \in Callers |-> "-"]
    /\ snap = [t \in Callers |-> "-"]
    /\ hist = << >>
    /\ ev = NoEv

----------------------------------------------------------------------------
\* The risk side: data.

MaxOpens == 2      \* position objects that open_position creates

\* RiskManager.risk_params (the defaults)
max_position_size == 2         \* 0.02, in hundredths
max_portfolio_risk == 5        \* 0.05, in hundredths
position_scaling_factor == 5   \* 0.5, in tenths
stop_loss_atr_factor == 20     \* 2.0, in tenths
max_correlation_risk == 30     \* 0.3, in hundredths
max_daily_drawdown == 3        \* 0.03, in hundredths

\* the float infinity that a numpy division by zero yields
inf == 2147483647

Capitals == {500000, 1000000}          \* 50,000 and 100,000
PositionSymbols == {"AAPL", "MSFT"}
Prices == {500, 1000}                  \* 50 and 100
Distances == {-20, 0, 20}              \* entry price minus stop price: -2, 0, 2
Strengths == {39, 40, 50, 80, 81}      \* 0.39 .. 0.81
Atrs == {10, 50}                       \* 1 and 5
Trends == {"BULLISH", "BEARISH", "NEUTRAL", "NORMAL", "STRONG"}
Volatilities == {"HIGH", "NORMAL", "LOW"}
Numerics == {"float", "float64"}       \* Python floats, or numpy floats as read from a price series
Limits == {1000, inf}                  \* the largest size the correlation and sector checks allow
Reasons == {"stop"}
\* the trends and volatilities MarketRegimeAnalyzer classifies a market into
DeclaredTrends == {"BULLISH", "BEARISH", "NEUTRAL"}
DeclaredVolatilities == {"HIGH", "NORMAL", "LOW"}
\* whether someone has given the object a risk_params attribute: neither
\* PortfolioRisk.__init__ nor RiskMonitor.__init__ does
Attributes == {"unset", "defaults"}
CorrelationSymbols == {"AAPL", "MSFT"}
PairCorrelations == {-50, 0, 10, 30, 31}   \* -0.5 .. 0.31
CheckedSymbols == {"AAPL", "GOOG"}
\* market volatilities and market impacts, in thousandths
MarketVolatilities == {10, 20, 21}
Impacts == {5, 10, 11}
\* what a timing plan and an order plan say; the duration in minutes
Timing(type, duration, intervals) ==
    [type |-> type, duration |-> duration, intervals |-> intervals]
NoTiming == Timing("-", 0, 0)
Strategy(type, symbol, side) == [type |-> type, symbol |-> symbol, side |-> side]
NoStrategy == Strategy("-", "", "")
NoPlans == [timing |-> << >>, strategy |-> << >>]
\* the dict monitor_position_risk reads: money and prices in tenths; expired
\* stands for datetime.now() > position['time_stop']
Watched(unrealized_pl, expired, price) ==
    [symbol |-> "AAPL", unrealized_pl |-> unrealized_pl, risk_amount |-> 20000,
     expired |-> expired, price |-> price, trailing_stop |-> 700]
NoWatched == Watched(0, FALSE, 0)
WatchedPositions ==
    {Watched(-20000, FALSE, 700), Watched(-30000, TRUE, 650)}
\* the dict monitor_portfolio_risk reads, in hundredths
Portfolio(drawdown, exposure, max_correlation) ==
    [drawdown |-> drawdown, exposure |-> exposure, max_correlation |-> max_correlation]
NoPortfolio == Portfolio(0, 0, 0)
Portfolios == {Portfolio(-4, 5, 31)}
\* the signals and regimes positions are opened on: price, stop_loss, strength, atr
OpenSignals == {[price |-> 500, stop_loss |-> 480, strength |-> 50, atr |-> 10],
                [price |-> 1000, stop_loss |-> 980, strength |-> 81, atr |-> 50]}
OpenRegimes == {[trend |-> "NORMAL", volatility |-> "NORMAL"]}
UpdatePrices == {450, 1100}            \* 45 and 110
UpdateAtrs == {10}                     \* 1
OpenLimits == {inf}                    \* positions are opened with the limit checks passing

\* MarketRegime: the fields the risk side reads
MarketRegime(trend, volatility) == [trend |-> trend, volatility |-> volatility]
Regimes == {MarketRegime(t, v) : t \in Trends, v \in Volatilities}

\* dataclass PositionSize (position_type left out: no code that sets it is at hand)
PositionSize(units, value, risk_amount, risk_percent) ==
    [units |-> units, value |-> value, risk_amount |-> risk_amount,
     risk_percent |-> risk_percent]

\* dataclass StopLevels (time_stop, a wall-clock time, left out)
StopLevels(initial_stop, trailing_stop, breakeven_stop, profit_stops) ==
    [initial_stop |-> initial_stop, trailing_stop |-> trailing_stop,
     breakeven_stop |-> breakeven_stop, profit_stops |-> profit_stops]

NoSize == PositionSize(0, 0, 0, 0)
NoStops == StopLevels(0, 0, 0, << >>)

\* The record of the last call on the risk side.
NoCall ==
    [op |-> "-",              \* "position_size", "stop_levels", "open", "update", "close"
     result |-> "-",          \* "PositionSize", "StopLevels", "Position", "None", "Raise"
     exc |-> "-",
     symbol |-> "",
     pid |-> 0,               \* the position object the call created or worked on
     entry |-> 0, stop |-> 0, strength |-> 0, atr |-> 0,
     regime |-> MarketRegime("", ""),
     regime_factor |-> 0, signal_factor |-> 0, portfolio_factor |-> 0,
     adjusted_units |-> 0,    \* the units before _verify_risk_limits
     size |-> NoSize,
     stops |-> NoStops,
     exposure |-> 0,          \* value of the positions PositionManager held at the call
     active |-> FALSE,        \* the symbol had a position in PositionManager.positions
     replaced |-> 0,          \* the position object the symbol had at the call
     trailing_before |-> 0,   \* trailing stop of the position at the call
     recorded |-> 0,          \* length of position_history at the call
     correlations |-> << >>,  \* PortfolioRisk.correlations at the call
     params |-> "-",          \* whether the object called had risk_params
     watched |-> NoWatched,   \* the position monitor_position_risk was given
     portfolio |-> NoPortfolio,
     warnings |-> << >>,      \* the list a monitor returned
     volatility |-> 0, impact |-> 0,
     timing |-> NoTiming,     \* the timing plan given or returned
     strategy |-> NoStrategy, \* the order plan returned
     price |-> 0]             \* current_price given to update

\* RiskManager.__init__
RiskManagerInit(c) ==
    /\ capital = c
    /\ current_positions = << >>
    /\ rev = NoCall
    /\ plans = NoPlans

\* PositionManager.__init__
PositionManagerInit ==
    /\ positions = << >>
    /\ position_history = << >>
    /\ heap = << >>

Init == OrderManagerInit /\ RiskManagerInit(1000000) /\ PositionManagerInit

----------------------------------------------------------------------------
\* Pure parts of the code.

\* ExecutionEngine._validate_signal: the signal names a symbol and a side
validate_signal(signal) == signal.symbol # "" /\ signal.side # ""

\* a validation that looks at the order type only
validate_order_type_only(o) == ~ (o.order_type \notin OrderType)

\* OrderManager._validate_order: TRUE when no ValueError is raised.
\* `not order.symbol` is true of the empty string, `not order.quantity` of zero.
validate_order(o) ==
    /\ ~ (o.symbol = "" \/ o.quantity = 0)
    /\ ~ (o.order_type \notin OrderType)

\* What submit's contract calls a malformed order.
Malformed(o) == o.symbol = "" \/ o.quantity <= 0 \/ o.order_type \notin OrderType

\* ExecutionOptimizer.get_optimal_strategy: the order plan for a trade of `size`
get_optimal_strategy(symbol, size) ==
    [order_type |-> "MARKET", quantity |-> size, time_in_force |-> "DAY"]

\* ExecutionEngine._generate_order_id
generate_order_id == next_id

\* an order built with one fixed id instead of a generated one
create_order_fixed_id(symbol, strategy, id) ==
    Order(symbol, strategy.order_type, strategy.quantity, 1)

\* the Order that _create_and_submit_order builds from the signal and the strategy
create_order(symbol, strategy, id) ==
    Order(symbol, strategy.order_type, strategy.quantity, id)

\* OrderManager.get_order_status: the current registry entry
get_order_status(id) == orders[id]

\* PerformanceTracker._calculate_execution_metrics: the field read off the order
calculate_execution_metrics(o) ==
    [success_rate |-> IF o.status = "FILLED" THEN 1 ELSE 0]

\* a tracker that is handed the order as it was submitted
track_execution_as_submitted(execs, o) ==
    [k \in DOMAIN execs \cup {o.order_id} |->
        IF k = o.order_id
        THEN calculate_execution_metrics([o EXCEPT !.status = "SUBMITTED"])
        ELSE execs[k]]

\* PerformanceTracker.track_execution: self.executions[order.order_id] = metrics
track_execution(execs, o) ==
    [k \in DOMAIN execs \cup {o.order_id} |->
        IF k = o.order_id THEN calculate_execution_metrics(o) ELSE execs[k]]

\* a loop that no status ends
monitor_exit_never(o) == FALSE

\* a loop that also leaves on a partial fill
monitor_exit_on_partial(o) == o.status \in Terminal \cup {"PARTIAL"}

\* the loop condition of _monitor_execution, negated
monitor_exit(o) == o.status \in Terminal

\* self.orders[submitted_order.order_id] = submitted_order
register(ords, o) ==
    [k \in DOMAIN ords \cup {o.order_id} |-> IF k = o.order_id THEN o ELSE ords[k]]

\* self.active_orders[submitted_order.order_id] = submitted_order
activate(act, o) == act \cup {o.order_id}

\* a status assignment that reaches every order of the registry
set_status_of_all(ords, id, s) == [k \in DOMAIN ords |-> [ords[k] EXCEPT !.status = s]]

\* a status assignment on the shared Order object, with its history
set_status(ords, id, s) == [ords EXCEPT ![id].status = s]
record(h, id, s) ==
    IF id \in DOMAIN h /\ h[id][Len(h[id])] # s THEN [h EXCEPT ![id] = Append(@, s)] ELSE h

Return(t) ==
    /\ pc' = [pc EXCEPT ![t] = "idle"]
    /\ op' = [op EXCEPT ![t] = "-"]
    /\ order' = [order EXCEPT ![t] = NoOrder]
    /\ err' = [err EXCEPT ![t] = "-"]
    /\ snap' = [snap EXCEPT ![t] = "-"]

Event(type, caller, id) == [NoEv EXCEPT !.type = type, !.op = caller, !.oid = id]

----------------------------------------------------------------------------
\* OrderManager.submit_order up to its await: validation, then the broker call.
submit_order_enter(t, o, type, caller) ==
    IF validate_order(o)
    THEN /\ pc' = [pc EXCEPT ![t] = "submit"]
         /\ op' = [op EXCEPT ![t] = caller]
         /\ order' = [order EXCEPT ![t] = o]
         /\ UNCHANGED <<err, snap>>
         /\ ev' = [Event(type, caller, o.order_id) EXCEPT
                      !.broker = TRUE, !.malformed = Malformed(o)]
    ELSE /\ Return(t)
         /\ ev' = [Event(type, caller, o.order_id) EXCEPT
                      !.result = "Raise", !.exc = "InvalidOrder",
                      !.malformed = Malformed(o)]

\* ExecutionEngine._monitor_execution at its loop head, `ords` being the registry
\* as this step leaves it: leave the loop, track the execution and return the
\* order, or poll again.
monitor_loop(t, ords, type) ==
    LET o == ords[order[t].order_id] IN
    IF monitor_exit(o)
    THEN /\ executions' = track_execution(executions, o)
         /\ Return(t)
         /\ ev' = [Event(type, "execute", o.order_id) EXCEPT
                      !.result = "Order", !.tracked = TRUE]
    ELSE /\ pc' = [pc EXCEPT ![t] = "poll"]
         /\ UNCHANGED <<executions, op, order, err, snap>>
         /\ ev' = NoEv

\* ExecutionEngine.execute_signal up to its first await.  Of the signal only the
\* symbol is read after the await; position_size is first read there too, and is
\* drawn where it is read.
execute_signal(t, signal) ==
    /\ pc[t] = "idle"
    /\ calls < MaxCalls
    /\ calls' = calls + 1
    /\ IF ~ validate_signal(signal)
       THEN /\ ev' = [Event("execute_signal", "execute", 0) EXCEPT
                         !.result = "None", !.malformed = TRUE]
            /\ UNCHANGED <<pc, op, order, err, snap>>
       ELSE /\ next_id <= MaxOrders
            /\ pc' = [pc EXCEPT ![t] = "market"]
            /\ op' = [op EXCEPT ![t] = "execute"]
            /\ order' = [order EXCEPT ![t] = [NoOrder EXCEPT !.symbol = signal.symbol]]
            /\ ev' = [Event("execute_signal", "execute", 0) EXCEPT !.broker = TRUE]
            /\ UNCHANGED <<err, snap>>
    /\ UNCHANGED <<orders, active_orders, next_id, executions, hist, rvars>>

\* broker.get_market_data returns: strategy, _create_and_submit_order, and
\* submit_order up to the broker call
market_data_return(t, size) ==
    /\ pc[t] = "market"
    /\ LET strategy == get_optimal_strategy(order[t].symbol, size)
           o == create_order(order[t].symbol, strategy, generate_order_id)
       IN  /\ next_id' = next_id + 1
           /\ submit_order_enter(t, o, "market_data_return", "execute")
    /\ UNCHANGED <<orders, active_orders, calls, executions, hist, rvars>>

\* broker.get_market_data raises: execute_signal logs and re-raises
market_data_fault(t) ==
    /\ pc[t] = "market"
    /\ Return(t)
    /\ ev' = [Event("market_data_fault", "execute", 0) EXCEPT
                 !.result = "Raise", !.exc = "BrokerFault"]
    /\ UNCHANGED <<orders, active_orders, next_id, calls, executions, hist, rvars>>

\* OrderManager.submit_order called directly with an order the caller built
submit_order(t, symbol, kind, quantity) ==
    /\ pc[t] = "idle"
    /\ calls < MaxCalls
    /\ calls' = calls + 1
    /\ next_id <= MaxOrders
    /\ next_id' = next_id + 1
    /\ submit_order_enter(t, Order(symbol, kind, quantity, generate_order_id),
                          "submit_order", "submit")
    /\ UNCHANGED <<orders, active_orders, executions, hist, rvars>>

\* broker.submit_order returns the order, now SUBMITTED: submit_order registers it
\* in both dicts and returns it; execute_signal goes on into _monitor_execution
broker_submit_return(t) ==
    /\ pc[t] = "submit"
    /\ LET submitted == [order[t] EXCEPT !.status = "SUBMITTED"] IN
       /\ orders' = register(orders, submitted)
       /\ active_orders' = activate(active_orders, submitted)
       /\ hist' = [k \in DOMAIN hist \cup {submitted.order_id} |->
                      IF k \in DOMAIN hist THEN hist[k] ELSE <<"SUBMITTED">>]
       /\ IF op[t] = "submit"
          THEN /\ Return(t)
               /\ ev' = [Event("broker_submit_return", "submit", submitted.order_id) EXCEPT
                            !.result = "Order"]
               /\ UNCHANGED executions
          ELSE monitor_loop(t, orders', "broker_submit_return")
    /\ UNCHANGED <<next_id, calls, rvars>>

\* broker.submit_order raises: submit_order logs and re-raises, so does execute_signal
broker_submit_fault(t) ==
    /\ pc[t] = "submit"
    /\ Return(t)
    /\ ev' = [Event("broker_submit_fault", op[t], order[t].order_id) EXCEPT
                 !.result = "Raise", !.exc = "BrokerFault"]
    /\ UNCHANGED <<orders, active_orders, next_id, calls, executions, hist, rvars>>

\* get_order_status returns the registry entry; the partial-fill hook; the sleep
poll_return(t) ==
    /\ pc[t] = "poll"
    /\ LET o == get_order_status(order[t].order_id) IN
       /\ pc' = [pc EXCEPT ![t] = "sleep"]
       /\ ev' = [Event("poll_return", "execute", o.order_id) EXCEPT
                    !.hook = (o.status = "PARTIAL")]
    /\ UNCHANGED <<orders, active_orders, next_id, calls, executions, op, order, err, snap, hist, rvars>>

\* asyncio.sleep returns: back to the loop head
wake(t) ==
    /\ pc[t] = "sleep"
    /\ monitor_loop(t, orders, "wake")
    /\ UNCHANGED <<orders, active_orders, next_id, calls, hist, rvars>>

\* OrderManager.cancel_order up to its await, for the caller's order `id`
cancel_order_enter(t, id, type, fault) ==
    LET at == IF id \in DOMAIN orders THEN orders[id].status ELSE "-"
        who == IF fault = "-" THEN "cancel" ELSE "execute"
    IN
    IF id \in active_orders
    THEN /\ pc' = [pc EXCEPT ![t] = "cancel"]
         /\ op' = [op EXCEPT ![t] = who]
         /\ order' = [order EXCEPT ![t] = [NoOrder EXCEPT !.order_id = id]]
         /\ err' = [err EXCEPT ![t] = fault]
         /\ snap' = [snap EXCEPT ![t] = at]
         /\ ev' = [Event(type, who, id) EXCEPT
                      !.broker = TRUE, !.atCall = at, !.original = fault]
    ELSE \* return False; the monitoring loop then re-raises what it caught
         /\ Return(t)
         /\ ev' = IF fault = "-"
                  THEN [Event(type, who, id) EXCEPT !.result = "False", !.atCall = at]
                  ELSE [Event(type, who, id) EXCEPT
                           !.result = "Raise", !.exc = fault, !.atCall = at,
                           !.original = fault, !.comp = "False"]

\* a fault while polling: _monitor_execution logs it and calls cancel_order
poll_fault(t) ==
    /\ pc[t] = "poll"
    /\ cancel_order_enter(t, order[t].order_id, "poll_fault", "MonitorFault")
    /\ UNCHANGED <<orders, active_orders, next_id, calls, executions, hist, rvars>>

\* OrderManager.cancel_order called directly
cancel_order(t, id) ==
    /\ pc[t] = "idle"
    /\ calls < MaxCalls
    /\ calls' = calls + 1
    /\ cancel_order_enter(t, id, "cancel_order", "-")
    /\ UNCHANGED <<orders, active_orders, next_id, executions, hist, rvars>>

\* broker.cancel_order returns: del active_orders[id], status = CANCELLED, return
\* True; in the monitoring loop the caught fault is then re-raised.  The del
\* raises KeyError when another cancel removed the key during the await.
broker_cancel_return(t) ==
    /\ pc[t] = "cancel"
    /\ LET id == order[t].order_id
           e == [Event("broker_cancel_return", op[t], id) EXCEPT
                    !.atCall = snap[t], !.original = err[t]]
       IN  IF id \notin active_orders
           THEN /\ ev' = [e EXCEPT !.result = "Raise", !.exc = "KeyError",
                                   !.comp = IF err[t] = "-" THEN "-" ELSE "KeyError"]
                /\ UNCHANGED <<orders, active_orders, hist>>
           ELSE /\ active_orders' = active_orders \ {id}
                /\ orders' = set_status(orders, id, "CANCELLED")
                /\ hist' = record(hist, id, "CANCELLED")
                /\ ev' = IF err[t] = "-"
                         THEN [e EXCEPT !.result = "True"]
                         ELSE [e EXCEPT !.result = "Raise", !.exc = err[t], !.comp = "True"]
    /\ Return(t)
    /\ UNCHANGED <<next_id, calls, executions, rvars>>

\* broker.cancel_order raises: cancel_order logs and re-raises
broker_cancel_fault(t) ==
    /\ pc[t] = "cancel"
    /\ ev' = [Event("broker_cancel_fault", op[t], order[t].order_id) EXCEPT
                 !.result = "Raise", !.exc = "CancelFault", !.atCall = snap[t],
                 !.original = err[t],
                 !.comp = IF err[t] = "-" THEN "-" ELSE "Raise"]
    /\ Return(t)
    /\ UNCHANGED <<orders, active_orders, next_id, calls, executions, hist, rvars>>

----------------------------------------------------------------------------
\* The broker, which owns the fills: it writes them into the Order it was given.

\* a fill report bringing the filled quantity of a working order up to n
broker_fill(id, n) ==
    /\ id \in DOMAIN orders
    /\ orders[id].status \in {"SUBMITTED", "PARTIAL"}
    /\ orders[id].filled_quantity < n
    /\ n <= orders[id].quantity
    /\ LET s == IF n = orders[id].quantity THEN "FILLED" ELSE "PARTIAL" IN
       /\ orders' = [orders EXCEPT ![id].filled_quantity = n, ![id].status = s]
       /\ hist' = record(hist, id, s)
       /\ ev' = NoEv
    /\ UNCHANGED <<active_orders, next_id, calls, executions, pc, op, order, err, snap, rvars>>

\* the broker rejects a submitted order
broker_reject(id) ==
    /\ id \in DOMAIN orders
    /\ orders[id].status = "SUBMITTED"
    /\ orders' = set_status(orders, id, "REJECTED")
    /\ hist' = record(hist, id, "REJECTED")
    /\ ev' = NoEv
    /\ UNCHANGED <<active_orders, next_id, calls, executions, pc, op, order, err, snap, rvars>>

----------------------------------------------------------------------------
\* RiskManager: position sizing and stop levels.

abs(x) == IF x < 0 THEN -x ELSE x

\* arithmetic of floats that may be infinite
times(a, b) == IF a = inf THEN inf ELSE a * b

\* a regime adjustment that boosts every low-volatility regime
get_regime_adjustment_low_boost(regime) ==
    IF regime.volatility = "HIGH" THEN position_scaling_factor
    ELSE IF regime.volatility = "LOW" THEN 12
    ELSE 10

\* RiskManager._get_regime_adjustment, in tenths
get_regime_adjustment(regime) ==
    IF regime.volatility = "HIGH" THEN position_scaling_factor
    ELSE IF regime.volatility = "LOW" /\ regime.trend = "STRONG" THEN 12
    ELSE 10

\* a signal adjustment whose upper threshold includes 0.8
get_signal_adjustment_inclusive(signal_strength) ==
    IF signal_strength >= 80 THEN 12
    ELSE IF signal_strength < 40 THEN 8
    ELSE 10

\* RiskManager._get_signal_adjustment, in tenths
get_signal_adjustment(signal_strength) ==
    IF signal_strength > 80 THEN 12
    ELSE IF signal_strength < 40 THEN 8
    ELSE 10

\* sum(pos.value for pos in held.values()), `held` mapping symbols to values
RECURSIVE total_value(_)
total_value(held) ==
    IF DOMAIN held = {} THEN 0
    ELSE LET k == CHOOSE x \in DOMAIN held : TRUE
         IN  held[k] + total_value([x \in DOMAIN held \ {k} |-> held[x]])

\* the factor for an exposure of `current_exposure`, in tenths
exposure_adjustment(current_exposure) ==
    IF current_exposure * 100 > max_portfolio_risk * capital THEN 5
    ELSE IF current_exposure * 200 < max_portfolio_risk * capital THEN 12
    ELSE 10

\* RiskManager._get_portfolio_adjustment: reads RiskManager.current_positions
get_portfolio_adjustment == exposure_adjustment(total_value(current_positions))

\* RiskManager._verify_risk_limits: the size capped at what the correlation and
\* sector checks allow
verify_risk_limits(units, limit) == IF units > limit THEN limit ELSE units

\* a risk amount that is scaled like the units of a high-volatility regime
risk_amount_scaled == (capital * max_position_size * position_scaling_factor) \div 1000

\* risk_amount = self.capital * self.risk_params['max_position_size']
risk_amount == (capital * max_position_size) \div 100

\* RiskManager.calculate_position_size: the outcome of the call.  A division by a
\* zero risk_per_share raises ZeroDivisionError on Python floats and yields
\* infinity on numpy floats.
calculate_position_size(entry_price, stop_loss, signal_strength, market_regime, numeric, limit) ==
    LET risk_per_share == abs(entry_price - stop_loss)
        regime_factor == get_regime_adjustment(market_regime)
        signal_factor == get_signal_adjustment(signal_strength)
        portfolio_factor == get_portfolio_adjustment
        adjusted_units ==
            IF risk_per_share = 0 THEN inf
            ELSE (risk_amount * regime_factor * signal_factor * portfolio_factor)
                     \div (risk_per_share * 1000)
        final_units == verify_risk_limits(adjusted_units, limit)
        call == [NoCall EXCEPT !.entry = entry_price, !.stop = stop_loss,
                               !.strength = signal_strength, !.regime = market_regime]
    IN  IF risk_per_share = 0 /\ numeric = "float"
        THEN [call EXCEPT !.result = "Raise", !.exc = "ZeroDivisionError"]
        ELSE [call EXCEPT
                 !.result = "PositionSize",
                 !.regime_factor = regime_factor,
                 !.signal_factor = signal_factor,
                 !.portfolio_factor = portfolio_factor,
                 !.adjusted_units = adjusted_units,
                 !.size = PositionSize(final_units, times(final_units, entry_price),
                                       risk_amount, (risk_amount * 100) \div capital)]

\* an ATR multiplier that ignores the regime
stop_multiplier_unscaled(market_regime) == stop_loss_atr_factor * 10

\* the ATR multiplier of the initial stop, in hundredths: scaled by 1.5 when the
\* regime's volatility is HIGH
stop_multiplier(market_regime) ==
    IF market_regime.volatility = "HIGH"
    THEN stop_loss_atr_factor * 15
    ELSE stop_loss_atr_factor * 10

\* RiskManager.calculate_stop_levels
calculate_stop_levels(entry_price, atr, market_regime) ==
    LET initial_stop == entry_price - (atr * stop_multiplier(market_regime)) \div 100
        trailing_stop == entry_price - atr * 3
        breakeven_stop == entry_price + ((entry_price - initial_stop) * 3) \div 10
        profit_stops == [i \in 1 .. 3 |->
                            entry_price + ((entry_price - initial_stop) * <<15, 20, 30>>[i]) \div 10]
    IN  StopLevels(initial_stop, trailing_stop, breakeven_stop, profit_stops)

\* a call of calculate_position_size
position_size(entry_price, stop_loss, signal_strength, market_regime, numeric, limit) ==
    /\ rev' = [calculate_position_size(entry_price, stop_loss, signal_strength,
                                       market_regime, numeric, limit)
                  EXCEPT !.op = "position_size"]
    /\ UNCHANGED <<capital, current_positions, plans, positions, position_history, heap, evars>>

\* a call of calculate_stop_levels
stop_levels(entry_price, atr, market_regime) ==
    /\ rev' = [NoCall EXCEPT !.op = "stop_levels", !.result = "StopLevels",
                             !.entry = entry_price, !.atr = atr, !.regime = market_regime,
                             !.stops = calculate_stop_levels(entry_price, atr, market_regime)]
    /\ UNCHANGED <<capital, current_positions, plans, positions, position_history, heap, evars>>

\* TimingOptimizer._get_high_volatility_timing and _get_normal_timing
get_high_volatility_timing == Timing("TWAP", 30, 6)
get_normal_timing == Timing("IMMEDIATE", 5, 1)

\* a timing choice that paces at the threshold too
get_optimal_timing_inclusive(market_conditions) ==
    IF market_conditions.volatility >= 20
    THEN get_high_volatility_timing
    ELSE get_normal_timing

\* TimingOptimizer.get_optimal_timing; 0.02 is 20 thousandths
get_optimal_timing(market_conditions) ==
    IF market_conditions.volatility > 20
    THEN get_high_volatility_timing
    ELSE get_normal_timing

\* ExecutionOptimizer._build_algorithmic_strategy and _build_direct_strategy
build_algorithmic_strategy(signal, impact) ==
    Strategy("ALGORITHMIC", signal.symbol, signal.side)
build_direct_strategy(signal) == Strategy("DIRECT", signal.symbol, signal.side)

\* ExecutionOptimizer._build_execution_strategy; 0.01 is 10 thousandths.  The
\* timing is a parameter the code does not read.
build_execution_strategy(signal, impact, timing) ==
    IF impact > 10
    THEN build_algorithmic_strategy(signal, impact)
    ELSE build_direct_strategy(signal)

\* the plan first returned for the input `key`, kept for later comparison
first(returned, key, plan) ==
    IF key \in DOMAIN returned THEN returned
    ELSE [k \in DOMAIN returned \cup {key} |-> IF k = key THEN plan ELSE returned[k]]

\* a call of get_optimal_timing
choose_timing(market_conditions) ==
    /\ LET timing == get_optimal_timing(market_conditions)
       IN  /\ rev' = [NoCall EXCEPT !.op = "choose_timing",
                                    !.volatility = market_conditions.volatility,
                                    !.result = "Dict", !.timing = timing]
           /\ plans' = [plans EXCEPT
                          !.timing = first(@, market_conditions.volatility, timing)]
    /\ UNCHANGED <<capital, current_positions, positions, position_history, heap, evars>>

\* a call of _build_execution_strategy
build_strategy(signal, impact, timing) ==
    /\ LET strategy == build_execution_strategy(signal, impact, timing)
       IN  /\ rev' = [NoCall EXCEPT !.op = "build_strategy", !.symbol = signal.symbol,
                                    !.impact = impact, !.timing = timing,
                                    !.result = "Dict", !.strategy = strategy]
           /\ plans' = [plans EXCEPT
                          !.strategy = first(@, <<impact, timing.type>>, strategy)]
    /\ UNCHANGED <<capital, current_positions, positions, position_history, heap, evars>>

\* the optimizer alone: timing choices and strategy builds in any order
StrategyNext ==
    \/ \E volatility \in MarketVolatilities : choose_timing([volatility |-> volatility])
    \/ \E impact \in Impacts, timing \in {get_high_volatility_timing, get_normal_timing} :
          build_strategy([symbol |-> "AAPL", side |-> "BUY"], impact, timing)

\* PortfolioRisk.update_correlations: returns.corr() of two price series whose
\* returns correlate with coefficient c; symmetric, 1 on the diagonal
update_correlations(c) ==
    [a \in CorrelationSymbols |-> [b \in CorrelationSymbols |-> IF a = b THEN 100 ELSE c]]

\* Series.abs().max()
abs_max(column) ==
    CHOOSE m \in {abs(column[b]) : b \in DOMAIN column} :
        \A b \in DOMAIN column : abs(column[b]) <= m

\* PortfolioRisk.check_correlation_limits on the matrix `correlations`:
\* self.risk_params is read after the maximum is taken
check_correlation_limits(correlations, symbol, params) ==
    IF symbol \in DOMAIN correlations
    THEN LET max_correlation == abs_max(correlations[symbol])
         IN  IF params = "unset"
             THEN [result |-> "Raise", exc |-> "AttributeError"]
             ELSE [result |-> IF max_correlation < max_correlation_risk
                              THEN "True" ELSE "False",
                   exc |-> "-"]
    ELSE [result |-> "True", exc |-> "-"]

\* a call of check_correlation_limits
check_correlation_limit(correlations, symbol, params) ==
    /\ LET checked == check_correlation_limits(correlations, symbol, params)
       IN  rev' = [NoCall EXCEPT !.op = "check_correlation", !.symbol = symbol,
                                 !.correlations = correlations, !.params = params,
                                 !.result = checked.result, !.exc = checked.exc]
    /\ UNCHANGED <<capital, current_positions, plans, positions, position_history, heap, evars>>

\* the risk manager alone: constructed with some capital, then sizing calls
SizingInit ==
    /\ OrderManagerInit
    /\ \E c \in Capitals : RiskManagerInit(c)
    /\ PositionManagerInit

SizingNext ==
    \/ \E entry_price \in Prices, d \in Distances, signal_strength \in Strengths,
          market_regime \in Regimes, numeric \in Numerics, limit \in Limits :
          position_size(entry_price, entry_price - d, signal_strength, market_regime,
                        numeric, limit)
    \/ \E entry_price \in Prices, atr \in Atrs, market_regime \in Regimes :
          stop_levels(entry_price, atr, market_regime)
    \/ \E correlations \in {<< >>} \cup {update_correlations(c) : c \in PairCorrelations},
          symbol \in CheckedSymbols, params \in Attributes :
          check_correlation_limit(correlations, symbol, params)

SizingSpec == SizingInit /\ [][SizingNext]_vars
StrategySpec == Init /\ [][StrategyNext]_vars

----------------------------------------------------------------------------
\* PositionManager.  A position is a dict, shared by reference between the
\* registry `positions` and the list `position_history`: `heap` holds the dicts
\* by identity, the registry and the history hold identities.

\* the position dict that open_position builds; `keys` are the optional keys the
\* dict has got so far
Position(symbol, signal, size, levels) ==
    [symbol |-> symbol, entry_price |-> signal.price, size |-> size,
     stops |-> levels, keys |-> {},
     current_price |-> 0, unrealized_pl |-> 0, exit_reason |-> "-", realized_pl |-> 0]

\* value of the positions the Position Manager holds
held_value == total_value([k \in DOMAIN positions |-> heap[positions[k]].size.value])

\* what every PositionManager call records of the state it was called in
Called(name, symbol) ==
    [NoCall EXCEPT
        !.op = name, !.symbol = symbol,
        !.active = (symbol \in DOMAIN positions),
        !.replaced = IF symbol \in DOMAIN positions THEN positions[symbol] ELSE 0,
        !.pid = IF symbol \in DOMAIN positions THEN positions[symbol] ELSE 0,
        !.trailing_before = IF symbol \in DOMAIN positions
                            THEN heap[positions[symbol]].stops.trailing_stop ELSE 0,
        !.exposure = held_value,
        !.recorded = Len(position_history)]

\* self.positions[symbol] = position
store(reg, symbol, pid) ==
    [k \in DOMAIN reg \cup {symbol} |-> IF k = symbol THEN pid ELSE reg[k]]

\* a close that leaves the entry in the registry
pop_keep(reg, symbol) == reg

\* self.positions.pop(symbol): the registry without the entry
pop(reg, symbol) == [k \in DOMAIN reg \ {symbol} |-> reg[k]]

\* a trailing stop that follows the price both ways
new_trailing_stop_loose(trailing_stop, current_price, current_atr) ==
    current_price - (current_atr * stop_loss_atr_factor) \div 10

\* max(position['stops'].trailing_stop, current_price - current_atr * factor)
new_trailing_stop(trailing_stop, current_price, current_atr) ==
    LET candidate == current_price - (current_atr * stop_loss_atr_factor) \div 10
    IN  IF candidate > trailing_stop THEN candidate ELSE trailing_stop

\* PositionManager.open_position
open_position(symbol, signal, market_regime, limit) ==
    /\ Cardinality(DOMAIN heap) < MaxOpens
    /\ LET sized == calculate_position_size(signal.price, signal.stop_loss,
                                            signal.strength, market_regime, "float", limit)
           levels == calculate_stop_levels(signal.price, signal.atr, market_regime)
           pid == Cardinality(DOMAIN heap) + 1
           position == Position(symbol, signal, sized.size, levels)
           call == Called("open", symbol)
       IN  /\ heap' = [k \in DOMAIN heap \cup {pid} |-> IF k = pid THEN position ELSE heap[k]]
           /\ positions' = store(positions, symbol, pid)
           /\ position_history' = Append(position_history, pid)
           /\ rev' = [call EXCEPT
                         !.result = "Position", !.pid = pid,
                         !.entry = signal.price, !.stop = signal.stop_loss,
                         !.strength = signal.strength, !.atr = signal.atr,
                         !.regime = market_regime,
                         !.regime_factor = sized.regime_factor,
                         !.signal_factor = sized.signal_factor,
                         !.portfolio_factor = sized.portfolio_factor,
                         !.adjusted_units = sized.adjusted_units,
                         !.size = sized.size, !.stops = levels]
    /\ UNCHANGED <<capital, current_positions, plans, evars>>

\* PositionManager.update_position
update_position(symbol, current_price, current_atr) ==
    /\ LET call == [Called("update", symbol) EXCEPT !.price = current_price,
                                                    !.atr = current_atr]
       IN  IF symbol \notin DOMAIN positions
           THEN /\ rev' = [call EXCEPT !.result = "None"]
                /\ UNCHANGED heap
           ELSE LET pid == positions[symbol]
                    position == heap[pid]
                IN  /\ heap' = [heap EXCEPT
                              ![pid].stops.trailing_stop =
                                  new_trailing_stop(position.stops.trailing_stop,
                                                    current_price, current_atr),
                              ![pid].keys = @ \cup {"current_price", "unrealized_pl"},
                              ![pid].current_price = current_price,
                              ![pid].unrealized_pl =
                                  (current_price - position.entry_price) * position.size.units]
                    /\ rev' = [call EXCEPT !.result = "Position"]
    /\ UNCHANGED <<positions, position_history, capital, current_positions, plans, evars>>

\* PositionManager.close_position.  position['current_price'] raises KeyError when
\* the dict has no such key, after the pop and the two stamps.
close_position(symbol, reason) ==
    /\ LET call == Called("close", symbol)
       IN  IF symbol \notin DOMAIN positions
           THEN /\ rev' = [call EXCEPT !.result = "None"]
                /\ UNCHANGED <<positions, position_history, heap>>
           ELSE LET pid == positions[symbol]
                    position == heap[pid]
                IN  /\ positions' = pop(positions, symbol)
                    /\ IF "current_price" \notin position.keys
                       THEN /\ heap' = [heap EXCEPT
                                    ![pid].keys = @ \cup {"exit_time", "exit_reason"},
                                    ![pid].exit_reason = reason]
                            /\ UNCHANGED position_history
                            /\ rev' = [call EXCEPT !.result = "Raise", !.exc = "KeyError"]
                       ELSE /\ heap' = [heap EXCEPT
                                    ![pid].keys = @ \cup {"exit_time", "exit_reason",
                                                          "realized_pl"},
                                    ![pid].exit_reason = reason,
                                    ![pid].realized_pl =
                                        (position.current_price - position.entry_price)
                                            * position.size.units]
                            /\ position_history' = Append(position_history, pid)
                            /\ rev' = [call EXCEPT !.result = "Position"]
    /\ UNCHANGED <<capital, current_positions, plans, evars>>

\* the position manager on its risk manager
\* RiskMonitor.monitor_position_risk: the warnings, in the order appended
monitor_position_risk(position) ==
    (IF position.unrealized_pl < - position.risk_amount
     THEN <<"exceeds risk limit">> ELSE << >>)
    \o (IF position.expired THEN <<"reached time stop">> ELSE << >>)
    \o (IF position.price < position.trailing_stop
        THEN <<"hit trailing stop">> ELSE << >>)

\* RiskMonitor.monitor_portfolio_risk: the first check reads self.risk_params
monitor_portfolio_risk(portfolio, params) ==
    IF params = "unset"
    THEN [result |-> "Raise", exc |-> "AttributeError", warnings |-> << >>]
    ELSE [result |-> "List", exc |-> "-",
          warnings |->
              (IF portfolio.drawdown < - max_daily_drawdown
               THEN <<"exceeds daily drawdown limit">> ELSE << >>)
              \o (IF portfolio.exposure > max_portfolio_risk
                  THEN <<"exceeds exposure limit">> ELSE << >>)
              \o (IF portfolio.max_correlation > max_correlation_risk
                  THEN <<"exceeds correlation limit">> ELSE << >>)]

\* a call of monitor_position_risk
position_warnings(position) ==
    /\ rev' = [NoCall EXCEPT !.op = "position_warnings", !.symbol = position.symbol,
                             !.watched = position, !.result = "List",
                             !.warnings = monitor_position_risk(position)]
    /\ UNCHANGED <<capital, current_positions, plans, positions, position_history, heap, evars>>

\* a call of monitor_portfolio_risk
portfolio_warnings(portfolio, params) ==
    /\ LET monitored == monitor_portfolio_risk(portfolio, params)
       IN  rev' = [NoCall EXCEPT !.op = "portfolio_warnings", !.portfolio = portfolio,
                                 !.params = params, !.result = monitored.result,
                                 !.exc = monitored.exc, !.warnings = monitored.warnings]
    /\ UNCHANGED <<capital, current_positions, plans, positions, position_history, heap, evars>>

PositionInit == OrderManagerInit /\ RiskManagerInit(1000000) /\ PositionManagerInit

PositionNext ==
    \/ \E symbol \in PositionSymbols, signal \in OpenSignals, market_regime \in OpenRegimes,
          limit \in OpenLimits : open_position(symbol, signal, market_regime, limit)
    \/ \E symbol \in PositionSymbols, current_price \in UpdatePrices, current_atr \in UpdateAtrs :
          update_position(symbol, current_price, current_atr)
    \/ \E symbol \in PositionSymbols, reason \in Reasons : close_position(symbol, reason)
    \/ \E position \in WatchedPositions : position_warnings(position)
    \/ \E portfolio \in Portfolios, params \in Attributes :
          portfolio_warnings(portfolio, params)

PositionSpec == PositionInit /\ [][PositionNext]_vars

----------------------------------------------------------------------------
Next ==
    \/ \E t \in Callers, signal \in Signals : execute_signal(t, signal)
    \/ \E t \in Callers, size \in Quantities : market_data_return(t, size)
    \/ \E t \in Callers : market_data_fault(t)
    \/ \E t \in Callers, symbol \in Symbols, kind \in Kinds, quantity \in Quantities :
          submit_order(t, symbol, kind, quantity)
    \/ \E t \in Callers : broker_submit_return(t)
    \/ \E t \in Callers : broker_submit_fault(t)
    \/ \E t \in Callers : poll_return(t)
    \/ \E t \in Callers : poll_fault(t)
    \/ \E t \in Callers : wake(t)
    \/ \E t \in Callers, id \in 1 .. MaxOrders : cancel_order(t, id)
    \/ \E t \in Callers : broker_cancel_return(t)
    \/ \E t \in Callers : broker_cancel_fault(t)
    \/ \E id \in 1 .. MaxOrders, n \in 1 .. MaxQty : broker_fill(id, n)
    \/ \E id \in 1 .. MaxOrders : broker_reject(id)

Spec == Init /\ [][Next]_vars

\* The event loop resumes every coroutine whose await has completed, and the
\* broker answers every call and settles every working order: a status read
\* returns or raises, the sleep ends, a broker cancel returns or raises, and a
\* SUBMITTED or PARTIAL order gets a further fill or a rejection.
status_read(t) == poll_return(t) \/ poll_fault(t)
broker_cancel(t) == broker_cancel_return(t) \/ broker_cancel_fault(t)
broker_report(id) == broker_reject(id) \/ \E n \in 1 .. MaxQty : broker_fill(id, n)

Fairness ==
    /\ \A t \in Callers :
          WF_vars(status_read(t)) /\ WF_vars(wake(t)) /\ WF_vars(broker_cancel(t))
    /\ \A id \in 1 .. MaxOrders : WF_vars(broker_report(id))

\* execute_signal calls on a valid signal and size, explicit cancels, and the broker
MonitorNext ==
    \/ \E t \in Callers : execute_signal(t, [symbol |-> "AAPL", side |-> "BUY"])
    \/ \E t \in Callers : market_data_return(t, MaxQty)
    \/ \E t \in Callers : market_data_fault(t)
    \/ \E t \in Callers : broker_submit_return(t)
    \/ \E t \in Callers : broker_submit_fault(t)
    \/ \E t \in Callers : poll_return(t)
    \/ \E t \in Callers : poll_fault(t)
    \/ \E t \in Callers : wake(t)
    \/ \E t \in Callers, id \in 1 .. MaxOrders : cancel_order(t, id)
    \/ \E t \in Callers : broker_cancel_return(t)
    \/ \E t \in Callers : broker_cancel_fault(t)
    \/ \E id \in 1 .. MaxOrders, n \in 1 .. MaxQty : broker_fill(id, n)
    \/ \E id \in 1 .. MaxOrders : broker_reject(id)

LiveSpec == Init /\ [][MonitorNext]_vars /\ Fairness

----------------------------------------------------------------------------
\* Properties.

ExecuteDone == ev.op = "execute" /\ ev.result # "-"
CancelDone == ev.op = "cancel" /\ ev.result # "-"

\* the step is about a registered order that submit's contract accepts
OnValidOrder == ev.oid \in DOMAIN orders /\ ~ Malformed(orders[ev.oid])

\* the transitions of the order state machine
Permitted(a, b) ==
    \/ a = "PENDING" /\ b = "SUBMITTED"
    \/ a \in {"SUBMITTED", "PARTIAL"} /\ b \in {"PARTIAL", "FILLED"}
    \/ a \notin Terminal /\ b = "CANCELLED"
    \/ a = "SUBMITTED" /\ b = "REJECTED"

\* C1: every change of a registered (well-formed) order's status is a permitted
\* transition of the state machine; in particular a FILLED, CANCELLED or REJECTED
\* order never changes status again.
C1_OnlyPermittedTransitions ==
    [][\A id \in DOMAIN orders :
          (~ Malformed(orders[id]) /\ orders'[id].status # orders[id].status)
              => Permitted(orders[id].status, orders'[id].status)]_vars

\* C2: a cancel_order call on a (well-formed) order that was FILLED, CANCELLED or
\* REJECTED when the call was made returns False, without invoking the broker,
\* and leaves the order's status as it was.
C2_CancelOfTerminalIsNoOp ==
    (CancelDone /\ OnValidOrder /\ ev.atCall \in Terminal)
        => /\ ev.result = "False"
           /\ orders[ev.oid].status = ev.atCall
           /\ ~ ev.broker

\* C3: when execute_signal ends after a fault in the monitoring of a (well-formed)
\* order that was SUBMITTED at the fault, a compensating cancel was attempted, the
\* order is CANCELLED and the exception raised is the monitoring fault.
C3_FaultOnSubmittedCancelsAndPropagates ==
    (ExecuteDone /\ OnValidOrder /\ ev.original # "-" /\ ev.atCall = "SUBMITTED")
        => /\ ev.comp # "-"
           /\ orders[ev.oid].status = "CANCELLED"
           /\ ev.result = "Raise" /\ ev.exc = ev.original

\* C4: when the compensating cancel (of a well-formed order) itself fails,
\* execute_signal still raises the monitoring fault, not the failure of the cancel.
C4_CancelFailureIsSwallowed ==
    (ExecuteDone /\ OnValidOrder /\ ev.comp \in {"Raise", "KeyError"})
        => (ev.result = "Raise" /\ ev.exc = ev.original)

\* C5 as stated: every completed execute_signal returns a terminal order or raises.
C5_TerminalOrderOrException ==
    ExecuteDone
        => \/ ev.result = "Order" /\ orders[ev.oid].status \in Terminal
           \/ ev.result = "Raise"

\* C5 as amended: every completed execute_signal returns a terminal order, raises,
\* or returns None for a signal that failed validation, before the broker was
\* invoked or an order created.
C5_TerminalOrderExceptionOrRejectedSignal ==
    ExecuteDone
        => \/ ev.result = "Order" /\ orders[ev.oid].status \in Terminal
           \/ ev.result = "Raise" /\ ev.exc # "-"
           \/ /\ ev.result = "None" /\ ev.type = "execute_signal"
              /\ ev.malformed /\ ~ ev.broker /\ ev.oid = 0

\* C5 witness: execute_signal has returned a FILLED order.
C5_Witness ==
    ExecuteDone /\ ev.result = "Order" /\ orders[ev.oid].status = "FILLED"

\* C6: every order in the registry has 0 <= filled_quantity <= quantity.
C6_FilledWithinQuantity ==
    \A id \in DOMAIN orders :
        0 <= orders[id].filled_quantity
            /\ orders[id].filled_quantity <= orders[id].quantity

\* the order has had a partial fill and no cancellation
PartialNotCancelled(id) ==
    /\ \E i \in 1 .. Len(hist[id]) : hist[id][i] = "PARTIAL"
    /\ \A i \in 1 .. Len(hist[id]) : hist[id][i] # "CANCELLED"

C8_MalformedOrderIsRejected ==
    (ev.type \in {"submit_order", "market_data_return"} /\ ev.malformed)
        => /\ ev.result = "Raise" /\ ev.exc = "InvalidOrder"
           /\ ~ ev.broker
           /\ ev.oid \notin DOMAIN orders /\ ev.oid \notin active_orders

\* C9: a completed cancel_order call whose (well-formed) order was in the active
\* set when it was called, and whose broker cancel did not fail, returned True,
\* the order being CANCELLED and out of the active set; a call whose order was not
\* in the active set returned False without invoking the broker.
C9_CancelContract ==
    (CancelDone /\ (ev.oid \in DOMAIN orders => OnValidOrder) /\ ev.exc # "CancelFault")
        => IF ev.type = "cancel_order"
           THEN ev.result = "False" /\ ~ ev.broker
           ELSE /\ ev.result = "True"
                /\ orders[ev.oid].status = "CANCELLED"
                /\ ev.oid \notin active_orders

----------------------------------------------------------------------------
\* Properties of the risk side.

SizeReturned == rev.op = "position_size" /\ rev.result = "PositionSize"

\* C11: every PositionSize that position_size returns for entry # stop has
\* risk_amount = capital x max_position_size, whatever the strength, the regime
\* and the exposure.
C11_RiskAmountIsCapitalFraction ==
    (SizeReturned /\ rev.entry # rev.stop)
        => rev.size.risk_amount * 100 = capital * max_position_size

\* C11 witness: a size was returned whose units were scaled down by the regime and
\* up by the signal.
C11_Witness ==
    /\ SizeReturned /\ rev.entry # rev.stop
    /\ rev.regime.volatility = "HIGH" /\ rev.strength > 80
    /\ rev.regime_factor = 5 /\ rev.signal_factor = 12

\* the signal factor as the contract states it, in tenths
ContractSignalFactor(strength) ==
    CASE strength > 80 -> 12
      [] strength < 40 -> 8
      [] OTHER -> 10

\* C12: the units before the clamp are (capital x max_position_size / |entry -
\* stop|) x regime_factor x signal_factor x portfolio_factor, the signal factor
\* being 1.2 above 0.8, 0.8 below 0.4 and 1.0 otherwise; capital 100000, entry 50,
\* stop 48, regime NORMAL/NORMAL, strength 0.5 and no exposure give 1200 units.
C12_UnitsFormula ==
    (SizeReturned /\ rev.entry # rev.stop)
        => /\ rev.signal_factor = ContractSignalFactor(rev.strength)
           /\ rev.adjusted_units * abs(rev.entry - rev.stop) * 1000
                 = ((capital * max_position_size) \div 100) * rev.regime_factor
                      * ContractSignalFactor(rev.strength) * rev.portfolio_factor
           /\ (capital = 1000000 /\ rev.entry = 500 /\ rev.stop = 480
                 /\ rev.regime = MarketRegime("NORMAL", "NORMAL") /\ rev.strength = 50)
                => rev.adjusted_units = 1200

\* C12 witness: the scenario's call has returned its 1200 units, unclamped.
C12_Witness ==
    /\ SizeReturned /\ capital = 1000000 /\ rev.entry = 500 /\ rev.stop = 480
    /\ rev.regime = MarketRegime("NORMAL", "NORMAL") /\ rev.strength = 50
    /\ rev.adjusted_units = 1200 /\ rev.size.units = 1200

\* C14: position_size with entry_price = stop_price fails: it returns no
\* PositionSize.
C14_ZeroDistanceFails ==
    (rev.op = "position_size" /\ rev.entry = rev.stop)
        => /\ rev.result = "Raise"
           /\ current_positions = << >>

\* C15: stop_levels returns initial = entry - atr x stop_loss_atr_factor (x 1.5 in
\* HIGH volatility), trailing = entry - 3 atr, breakeven = entry + 0.3 (entry -
\* initial), profit stops = entry + (entry - initial) x {1.5, 2, 3}, ascending;
\* entry 100, atr 5, HIGH give 85, 85, 104.5 and [122.5, 130, 145].
C15_StopLevels ==
    rev.op = "stop_levels"
        => LET st == rev.stops
               d == rev.entry - st.initial_stop
           IN  /\ st.initial_stop * 100
                     = rev.entry * 100
                         - rev.atr * stop_loss_atr_factor
                             * (IF rev.regime.volatility = "HIGH" THEN 15 ELSE 10)
               /\ st.trailing_stop = rev.entry - 3 * rev.atr
               /\ st.breakeven_stop * 10 = rev.entry * 10 + 3 * d
               /\ Len(st.profit_stops) = 3
               /\ st.profit_stops[1] * 10 = rev.entry * 10 + d * 15
               /\ st.profit_stops[2] = rev.entry + d * 2
               /\ st.profit_stops[3] = rev.entry + d * 3
               /\ st.profit_stops[1] <= st.profit_stops[2]
               /\ st.profit_stops[2] <= st.profit_stops[3]
               /\ (rev.entry = 1000 /\ rev.atr = 50 /\ rev.regime.volatility = "HIGH")
                     => st = StopLevels(850, 850, 1045, <<1225, 1300, 1450>>)

\* C15 witness: the scenario's call has returned.
C15_Witness ==
    /\ rev.op = "stop_levels" /\ rev.entry = 1000 /\ rev.atr = 50
    /\ rev.regime.volatility = "HIGH" /\ rev.stops.initial_stop = 850

\* the portfolio factor as the contract states it, for an exposure, in tenths
ContractPortfolioFactor(exposure) ==
    CASE exposure * 100 > max_portfolio_risk * capital -> 5
      [] exposure * 200 < max_portfolio_risk * capital -> 12
      [] OTHER -> 10

\* C13: the portfolio factor used when a position (on a symbol not held yet) is
\* sized reflects the positions the Position Manager holds at that moment: 0.5
\* when their value over capital exceeds max_portfolio_risk, 1.2 below half of it,
\* 1.0 otherwise.
C13_PortfolioFactorReflectsPositions ==
    (rev.op = "open" /\ rev.result = "Position" /\ ~ rev.active)
        => rev.portfolio_factor = ContractPortfolioFactor(rev.exposure)

\* C16: after an update of an open position the trailing stop is at least what it
\* was before, and equals max(previous, current_price - current_atr x
\* stop_loss_atr_factor).
C16_TrailingStopRatchets ==
    (rev.op = "update" /\ rev.result = "Position")
        => LET after == heap[rev.pid].stops.trailing_stop
               candidate == rev.price - (rev.atr * stop_loss_atr_factor) \div 10
           IN  /\ after >= rev.trailing_before
               /\ after >= candidate
               /\ after \in {rev.trailing_before, candidate}

\* C16 witness: an update with a low price on a position whose trailing stop an
\* earlier update had raised.
C16_Witness ==
    /\ rev.op = "update" /\ rev.result = "Position"
    /\ rev.price - (rev.atr * stop_loss_atr_factor) \div 10 < rev.trailing_before
    /\ rev.trailing_before > heap[rev.pid].entry_price

\* C17: open on a symbol that has an active position is rejected: the active
\* position is not replaced and nothing is appended to history.
C17_DuplicateOpenRejected ==
    (rev.op = "open" /\ rev.active)
        => /\ rev.result = "Raise"
           /\ positions[rev.symbol] = rev.replaced
           /\ Len(position_history) = rev.recorded

\* C18: close on an active position, updated or not, removes it from the registry,
\* stamps exit time and reason, sets realized P&L to (current price - entry price)
\* x units and appends exactly one record to history.
C18_CloseFinalizes ==
    (rev.op = "close" /\ rev.active)
        => LET position == heap[rev.pid] IN
           /\ rev.result = "Position"
           /\ rev.symbol \notin DOMAIN positions
           /\ {"exit_time", "exit_reason", "realized_pl"} \subseteq position.keys
           /\ position.realized_pl
                 = (position.current_price - position.entry_price) * position.size.units
           /\ Len(position_history) = rev.recorded + 1
           /\ position_history[Len(position_history)] = rev.pid

\* C19: update and close on a symbol without an active position fail, and change
\* neither the registry nor the history.
C19_AbsentPositionFails ==
    (rev.op \in {"update", "close"} /\ ~ rev.active)
        => /\ rev.result = "Raise"
           /\ rev.symbol \notin DOMAIN positions
           /\ Len(position_history) = rev.recorded

\* C20: no call changes any field of the record of a position that has been
\* closed.
C20_ClosedRecordIsFrozen ==
    [][\A p \in DOMAIN heap :
          "exit_time" \in heap[p].keys => heap'[p] = heap[p]]_vars

\* C20 witness: a position has been closed, and a later position on the same
\* symbol has been opened and updated.
C20_Witness ==
    /\ rev.op = "update" /\ rev.result = "Position"
    /\ \E p \in DOMAIN heap :
          /\ "realized_pl" \in heap[p].keys
          /\ heap[p].symbol = rev.symbol
          /\ p # rev.pid

\* C22: check_correlation_limit(symbol) fails exactly when the largest absolute
\* correlation of symbol with another symbol of the matrix exceeds
\* max_correlation_risk, and passes otherwise; the symbol's correlation with
\* itself does not count.
C22_CorrelationLimit ==
    rev.op = "check_correlation"
        => LET others == IF rev.symbol \in DOMAIN rev.correlations
                         THEN DOMAIN rev.correlations \ {rev.symbol} ELSE {}
               exceeds == \E b \in others :
                             abs(rev.correlations[rev.symbol][b]) > max_correlation_risk
           IN  rev.result = IF exceeds THEN "False" ELSE "True"

\* C30: for every regime with trend in {BULLISH, BEARISH, NEUTRAL} and volatility
\* in {HIGH, NORMAL, LOW} the regime factor is position_scaling_factor when the
\* volatility is HIGH and 1.0 otherwise: the 1.2 boost is never applied.
C30_NoBoostInDeclaredDomain ==
    (SizeReturned /\ rev.regime.trend \in DeclaredTrends
                  /\ rev.regime.volatility \in DeclaredVolatilities)
        => rev.regime_factor
             = IF rev.regime.volatility = "HIGH" THEN position_scaling_factor ELSE 10

\* C30 witness: a position has been sized in a low-volatility bullish regime.
C30_Witness ==
    /\ SizeReturned /\ rev.regime = MarketRegime("BULLISH", "LOW")
    /\ rev.regime_factor = 10

\* C21: a call of position_warnings or portfolio_warnings returns a list of
\* warnings and leaves the order registry, the active-orders set, every order's
\* status, the position registry and the position history unchanged.
C21_WarningsAreAdvisory ==
    [][rev'.op \in {"position_warnings", "portfolio_warnings"}
          => /\ rev'.result = "List"
             /\ UNCHANGED <<orders, active_orders, positions, position_history, heap>>]_vars

\* C23: choose_timing returns the paced plan (6 slices over 30 minutes) exactly
\* when volatility > 0.02 and the immediate plan (1 slice over 5 minutes)
\* otherwise; build_strategy returns the algorithmic plan exactly when
\* impact > 0.01 and the direct plan otherwise; and a call returns the plan that
\* the first call with the same inputs returned, whatever calls came between.
C23_StrategyIsDeterministic ==
    /\ rev.op = "choose_timing"
          => /\ rev.timing = IF rev.volatility > 20
                             THEN [type |-> "TWAP", duration |-> 30, intervals |-> 6]
                             ELSE [type |-> "IMMEDIATE", duration |-> 5, intervals |-> 1]
             /\ rev.timing = plans.timing[rev.volatility]
    /\ rev.op = "build_strategy"
          => /\ rev.strategy.type = IF rev.impact > 10 THEN "ALGORITHMIC" ELSE "DIRECT"
             /\ rev.strategy = plans.strategy[<<rev.impact, rev.timing.type>>]

\* C23 witness: a timing is chosen at exactly 0.02 after strategies have been
\* built at exactly 0.01 and above it, and timings chosen above 0.02.
C23_Witness ==
    /\ rev.op = "choose_timing" /\ rev.volatility = 20 /\ rev.timing.type = "IMMEDIATE"
    /\ 21 \in DOMAIN plans.timing
    /\ <<10, "TWAP">> \in DOMAIN plans.strategy /\ plans.strategy[<<10, "TWAP">>].type = "DIRECT"
    /\ <<11, "IMMEDIATE">> \in DOMAIN plans.strategy

\* C28: when a broker cancel returns to a cancel of a (well-formed) order, be it
\* an explicit cancel_order or a compensating one, and whatever other cancel of
\* the same order ran during the await, the cancel does not raise: it gives True
\* or False, and the order is CANCELLED and out of the active set.
C28_ConcurrentCancelsDoNotRaise ==
    (ev.type = "broker_cancel_return" /\ OnValidOrder)
        => /\ (IF ev.op = "cancel" THEN ev.result ELSE ev.comp) \in {"True", "False"}
           /\ ev.exc # "KeyError"
           /\ orders[ev.oid].status = "CANCELLED"
           /\ ev.oid \notin active_orders

\* C29: the active-orders set is a subset of the order registry and holds only
\* (well-formed) orders whose status is not FILLED, CANCELLED or REJECTED.
C29_ActiveOrdersAreLive ==
    /\ active_orders \subseteq DOMAIN orders
    /\ \A id \in active_orders :
          ~ Malformed(orders[id]) => orders[id].status \notin Terminal

\* execute_signal has ended on a signal or an order that failed validation
ValidationFailed == ExecuteDone /\ (ev.result = "None" \/ ev.exc = "InvalidOrder")

\* C24: an execute_signal call whose signal or order fails validation ends in the
\* step that validated: it never polled, issued no compensating cancel, invoked
\* no broker submit, its order is in neither dict and was not tracked, and the
\* step left the registry, the active set and the tracker as they were; so no
\* task that is submitting or monitoring holds an order that fails validation.
C24_ValidationFailsAtTheBoundary ==
    /\ [](ValidationFailed
            => /\ ev.type \in {"execute_signal", "market_data_return"}
               /\ ev.comp = "-" /\ ev.original = "-" /\ ~ ev.broker
               /\ ev.oid \notin DOMAIN orders /\ ev.oid \notin active_orders
               /\ ev.oid \notin DOMAIN executions)
    /\ [](\A t \in Callers :
            (op[t] = "execute" /\ pc[t] \in {"submit", "poll", "sleep"})
                => /\ order[t].symbol # "" /\ order[t].quantity # 0
                   /\ order[t].order_type \in OrderType)
    /\ [][ValidationFailed' => UNCHANGED <<orders, active_orders, executions, hist>>]_vars

\* C24 witness: execute_signal has raised on an order that failed validation
\* while another order was registered and active.
C24_Witness ==
    /\ ValidationFailed /\ ev.type = "market_data_return" /\ ev.exc = "InvalidOrder"
    /\ active_orders # {}

Touched(id) ==
    \/ (id \in DOMAIN orders) # (id \in DOMAIN orders')
    \/ (id \in active_orders) # (id \in active_orders')
    \/ id \in DOMAIN orders /\ orders'[id].status # orders[id].status

\* C25: every step changes the status and the dict membership of at most one
\* order; when the step is a task's (a return or fault of one of its awaits) the
\* order is the task's own, whatever the other tasks are monitoring.
C25_TasksTouchOnlyTheirOwnOrder ==
    [][\A id \in DOMAIN orders' :
          Touched(id)
              => /\ \A other \in DOMAIN orders' : Touched(other) => other = id
                 /\ ev'.type # "Init"
                      => /\ ev'.oid = id
                         /\ \E t \in Callers :
                               pc'[t] # pc[t] /\ order[t].order_id = id]_vars

\* C25 witness: the compensating cancel of one monitoring task has cancelled its
\* order while another task is monitoring an order that is still working.
C25_Witness ==
    /\ ev.type = "broker_cancel_return" /\ ev.op = "execute" /\ ev.comp = "True"
    /\ orders[ev.oid].status = "CANCELLED"
    /\ \E t \in Callers :
          /\ op[t] = "execute" /\ pc[t] \in {"poll", "sleep"}
          /\ order[t].order_id # ev.oid
          /\ order[t].order_id \in active_orders
          /\ orders[order[t].order_id].status \in {"SUBMITTED", "PARTIAL"}

\* caller t is inside _monitor_execution: reading the status, sleeping, or in the
\* compensating cancel
Monitoring(t) == op[t] = "execute" /\ pc[t] \in {"poll", "sleep", "cancel"}

\* C27: the loop is left only on a terminal status or on a fault: a task that
\* wakes while its order is not terminal polls again, however often it has
\* polled; a poll invokes the partial-fill hook exactly when it reads PARTIAL, and
\* changes no order; and, the broker reporting a terminal status or a fault in
\* the end, every task that is monitoring comes to return or raise.
C27_MonitoringEndsOnTerminalOrFault ==
    /\ [][\A t \in Callers :
            (op[t] = "execute" /\ pc[t] = "sleep" /\ pc'[t] # "sleep")
                => IF orders[order[t].order_id].status \in Terminal
                   THEN pc'[t] = "idle" /\ ev'.result = "Order"
                   ELSE pc'[t] = "poll"]_vars
    /\ [][ev'.type = "poll_return"
            => /\ ev'.hook <=> (orders[ev'.oid].status = "PARTIAL")
               /\ UNCHANGED <<orders, active_orders, hist>>]_vars
    /\ \A t \in Callers : Monitoring(t) ~> (pc[t] = "idle")

\* C27 witness: a poll has read PARTIAL and invoked the hook, and the task sleeps
\* before polling again.
C27_Witness ==
    /\ ev.type = "poll_return" /\ ev.hook
    /\ \E t \in Callers :
          Monitoring(t) /\ pc[t] = "sleep" /\ order[t].order_id = ev.oid
    /\ orders[ev.oid].status = "PARTIAL"

====
